---- MODULE Spec2Model ----
(***************************************************************************)
(* State-machine model of the map-and-pathing SIR engine                   *)
(* (src/sir_model.py, src/pathing.py).                                     *)
(*                                                                         *)
(* Coordinates are 0-based as in the source: a cell is <<x, y>> with x the *)
(* first (row) index and y the second (column) index of the numpy arrays.  *)
(* Probabilities are in hundredths: random.random() is a draw from         *)
(* RandomDraws, one representative per interval between the thresholds     *)
(* the code compares against.                                              *)
(***************************************************************************)
EXTENDS Integers, Sequences, FiniteSets, TLC

VARIABLES
    mapfile,        \* index of the terrain image the SIRMap was loaded from
    miasma,         \* SIRMap.miasma: cell -> uint8
    recovery_rate,  \* SIRModel.recovery_rate, in hundredths
    carriers,       \* the constructor's carriers argument
    population,     \* SIRModel.population: sequence of SIRNode records
    phase,          \* position inside model_step ("idle" between calls)
    idx,            \* index of the agent the running sweep is at
    ticks,          \* number of completed model_step calls
    routed,         \* the pathfind call of the last step, or NoCall
    probes,         \* the can_enter calls made by the last step
    fieldRun,       \* the run of equal SIRMap calls made directly on the map
    fieldBase,      \* the miasma before that run
    calls,          \* the method calls model_step has made since it was called
    returned,       \* the value the last query returned, or NoReturn
    fresh,          \* the cells contaminate was called on in this model_step
    quiet,          \* cell -> consecutive whole model_steps without contaminate
    isolation       \* agent -> the route its isolating move call was given

vars == <<mapfile, miasma, recovery_rate, carriers, population,
          phase, idx, ticks, routed, probes, fieldRun, fieldBase,
          calls, returned, fresh, quiet, isolation>>

-----------------------------------------------------------------------------
(* Bounds of the model *)

MaxTicks == 3

\* model_step calls made on an engine of one agent
MaxSoloTicks == 6

\* the count `quiet` stops at
MaxQuiet == 4

\* direct SIRMap calls: consecutive ventilate calls, repeats of a contaminate call
MaxVentilations == 5

MaxRepeats == 2

\* how far outside the grid can_enter is queried
Margin == 2

PopulationSizes == {1, 2}

RecoveryRates == {0, 2}

Urgencies == {40, 95}

RandomDraws == {1, 3, 7, 15, 30, 45, 55, 70, 90, 97}

-----------------------------------------------------------------------------
(* SIRStatus, Terrain *)

SUSCEPTIBLE == "SUSCEPTIBLE"
INFECTED == "INFECTED"
RECOVERED == "RECOVERED"
QUARANTINED == "QUARANTINED"

SIRStatus == {SUSCEPTIBLE, INFECTED, RECOVERED, QUARANTINED}

OPEN == "O"
WALL == "W"
START == "S"
TARGET == "T"
QUARANTINE == "Q"

(* Terrain images: img[x+1][y+1] is the terrain class of pixel (x, y).     *)

\* walls fully separate the start zone from every other zone
MapWalled == << <<START, WALL, TARGET, QUARANTINE, OPEN>>,
                <<START, WALL, TARGET, QUARANTINE, OPEN>> >>

\* no wall cell, no quarantine cell
MapOpen == << <<START, TARGET, OPEN>>,
              <<START, TARGET, OPEN>> >>

\* a wall the shortest route goes around
MapDetour == << <<START, WALL, TARGET>>,
                <<START, OPEN, TARGET>>,
                <<OPEN, OPEN, QUARANTINE>> >>

\* no start cell
MapNoStart == << <<OPEN, TARGET, QUARANTINE>>,
                 <<OPEN, TARGET, QUARANTINE>> >>

\* one start cell, one target cell: too few cells for random_idx
MapStrip == << <<START, TARGET>> >>

Maps == <<MapWalled, MapOpen, MapDetour, MapNoStart, MapStrip>>

MapIds == DOMAIN Maps

-----------------------------------------------------------------------------
(* SIRMap.load_map *)

shape(img) == <<Len(img), Len(img[1])>>

Cells(img) == (0 .. shape(img)[1] - 1) \X (0 .. shape(img)[2] - 1)

_is_pixel_type(img, rgb) == {c \in Cells(img) : img[c[1] + 1][c[2] + 1] = rgb}

open(img) == _is_pixel_type(img, OPEN)
walls(img) == _is_pixel_type(img, WALL)
start(img) == _is_pixel_type(img, START)
target(img) == _is_pixel_type(img, TARGET)
quarantine(img) == _is_pixel_type(img, QUARANTINE)

valid(img) == Cells(img) \ (quarantine(img) \cup walls(img))

-----------------------------------------------------------------------------
(* pathing.random_idx *)

\* np.argwhere(mask): the cells of the mask in row-major order
argwhere(img, mask) ==
    LET N == shape(img)[2]
        all == [k \in 1 .. shape(img)[1] * N |-> <<(k - 1) \div N, (k - 1) % N>>]
        In(c) == c \in mask
    IN  SelectSeq(all, In)

\* np.random.randint(low, high) draws from low .. high-1 and raises
\* ValueError when low >= high
randint(low, high) == low .. high - 1

random_idx_raises(img, mask) == randint(0, Len(argwhere(img, mask)) - 1) = {}

\* the cells random_idx(mask) can return
random_idx(img, mask) ==
    LET ix == argwhere(img, mask)
    IN  {ix[rand + 1] : rand \in randint(0, Len(ix) - 1)}

-----------------------------------------------------------------------------
(* pathing.create_graph *)

Abs(n) == IF n < 0 THEN -n ELSE n

\* nx.grid_2d_graph(M, N): 4-connected grid
Adjacent(u, v) == Abs(u[1] - v[1]) + Abs(u[2] - v[2]) = 1

Neighbours(img, u) == {v \in Cells(img) : Adjacent(u, v)}

\* walls.size
size(img) == shape(img)[1] * shape(img)[2]

\* variant: the penalty only when both ends of the edge are wall cells
EdgeCostBothWalls(img, u, v) ==
    IF u \in walls(img) /\ v \in walls(img) THEN size(img) ELSE 1

\* the 'cost' attribute of edge (u, v)
EdgeCost(img, u, v) ==
    IF u \in walls(img) \/ v \in walls(img) THEN size(img) ELSE 1

-----------------------------------------------------------------------------
(* SIRNode.pathfind: nx.astar_path over the 'cost' attribute.  The         *)
(* Euclidean heuristic never exceeds the number of remaining steps and     *)
(* every edge costs at least 1, so the search returns a route of least     *)
(* total cost; which one of several least-cost routes it returns is left   *)
(* open.  The returned list starts with the source node.                   *)

\* larger than the cost of any simple route
Unreached(img) == size(img) * size(img) + 1

Min(S) == CHOOSE a \in S : \A b \in S : a <= b

\* cells are numbered 1 .. size in row-major order
CellAt(img, k) == <<(k - 1) \div shape(img)[2], (k - 1) % shape(img)[2]>>
CellIndex(img, c) == c[1] * shape(img)[2] + c[2] + 1

\* the tuple <<f[k], ..., f[n]>>, every entry computed once
RECURSIVE Tabulate(_, _, _)
Tabulate(f, k, n) == IF k > n THEN <<>> ELSE <<f[k]>> \o Tabulate(f, k + 1, n)

RECURSIVE Relax(_, _, _)
Relax(img, d, k) ==
    IF k = 0 THEN d
    ELSE LET Better(j) ==
                 Min({d[j]} \cup {EdgeCost(img, CellAt(img, j), v) + d[CellIndex(img, v)] :
                                     v \in Neighbours(img, CellAt(img, j))})
         IN  Relax(img, Tabulate([n \in 1 .. size(img) |-> Better(n)], 1, size(img)), k - 1)

\* least total cost from every cell (by number) to t
CostTo(img, t) ==
    LET Far(j) == IF CellAt(img, j) = t THEN 0 ELSE Unreached(img)
    IN  Relax(img, Tabulate([n \in 1 .. size(img) |-> Far(n)], 1, size(img)), size(img))

RECURSIVE LeastCostPaths(_, _, _, _)
LeastCostPaths(img, d, s, t) ==
    IF s = t THEN {<<t>>}
    ELSE UNION {{<<s>> \o p : p \in LeastCostPaths(img, d, v, t)} :
                v \in {w \in Neighbours(img, s) :
                          EdgeCost(img, s, w) + d[CellIndex(img, w)] = d[CellIndex(img, s)]}}

\* nx.astar_path(graph, s, t, heuristic=dist, weight='cost') for every map,
\* target number and source number
AStarTable ==
    LET OfMap(i) ==
            LET OfTarget(tk) ==
                    LET d == CostTo(Maps[i], CellAt(Maps[i], tk))
                        OfSource(sk) ==
                            LeastCostPaths(Maps[i], d, CellAt(Maps[i], sk), CellAt(Maps[i], tk))
                    IN  Tabulate([n \in 1 .. size(Maps[i]) |-> OfSource(n)], 1, size(Maps[i]))
            IN  Tabulate([n \in 1 .. size(Maps[i]) |-> OfTarget(n)], 1, size(Maps[i]))
    IN  Tabulate([n \in 1 .. Len(Maps) |-> OfMap(n)], 1, Len(Maps))

astar_path(i, s, t) == AStarTable[i][CellIndex(Maps[i], t)][CellIndex(Maps[i], s)]

\* variant: the source node dropped from the stored route
pathfind_without_source(i, s, t) == {Tail(route) : route \in astar_path(i, s, t)}

\* the routes pathfind(t) can store for an agent standing on s
pathfind(i, s, t) == astar_path(i, s, t)

-----------------------------------------------------------------------------
(* SIRMap.can_enter, virus_level, contaminate, ventilate *)

\* numpy indexing a[x, y] of an array of the map's shape: negative indices
\* wrap around, indices outside -dim .. dim-1 raise IndexError
InIndexRange(img, x, y) ==
    /\ x \in -shape(img)[1] .. shape(img)[1] - 1
    /\ y \in -shape(img)[2] .. shape(img)[2] - 1

Wrapped(img, x, y) == <<x % shape(img)[1], y % shape(img)[2]>>

\* variant: the test for negative coordinates left out
can_enter_no_lower_check(img, x, y) ==
    IF x >= shape(img)[1] \/ y >= shape(img)[2] THEN "False"
    ELSE IF ~InIndexRange(img, x, y) THEN "IndexError"
    ELSE IF Wrapped(img, x, y) \in valid(img) THEN "1" ELSE "0"

\* The value can_enter returns: Python False for an out-of-bounds pair,
\* else the uint8 valid[x,y] & role ("1" or "0"); "IndexError" when the
\* array access raises.
can_enter(img, x, y) ==
    IF x >= shape(img)[1] \/ y >= shape(img)[2] THEN "False"
    ELSE IF x < 0 \/ y < 0 THEN "False"
    ELSE IF ~InIndexRange(img, x, y) THEN "IndexError"
    ELSE IF Wrapped(img, x, y) \in valid(img) THEN "1" ELSE "0"

\* truth value of a can_enter result in an `and` condition
Truthy(ret) == ret = "1"

virus_level(m, x, y) == m[<<x, y>>]

RECURSIVE BitOr(_, _)
BitOr(a, b) ==
    IF a = 0 THEN b
    ELSE IF b = 0 THEN a
    ELSE 2 * BitOr(a \div 2, b \div 2) + (IF a % 2 = 1 \/ b % 2 = 1 THEN 1 ELSE 0)

\* concentration=0b01111111
DefaultConcentration == 127

\* variant: uint8 addition instead of OR
contaminate_by_adding(m, x, y, concentration) ==
    [m EXCEPT ![<<x, y>>] = (@ + (concentration % 256)) % 256]

\* miasma[x,y] |= np.uint8(concentration)
contaminate(m, x, y, concentration) ==
    [m EXCEPT ![<<x, y>>] = BitOr(@, concentration % 256)]

\* variant: a shift by one bit
ventilate_by_one_bit(m) == [c \in DOMAIN m |-> m[c] \div 2]

\* miasma[i,j] >>= 2 for every cell
ventilate(m) == [c \in DOMAIN m |-> m[c] \div 4]

-----------------------------------------------------------------------------
(* SIRNode *)

SIRNode(x0, y0) ==
    [x |-> x0, y |-> y0, status |-> SUSCEPTIBLE, urgency |-> 100, path |-> <<>>]

infect(p) == [p EXCEPT !.status = INFECTED]

is_contagious(p) == p.status = INFECTED
\* variant: no agent is taken to be quarantined
is_quarantined_never(p) == FALSE

is_quarantined(p) == p.status = QUARANTINED
is_susceptible(p) == p.status = SUSCEPTIBLE

Here(p) == <<p.x, p.y>>

\* variant: path.pop() takes the last cell of the route
PopPathFromEnd(p) ==
    [p EXCEPT !.x = p.path[Len(p.path)][1], !.y = p.path[Len(p.path)][2],
              !.path = SubSeq(p.path, 1, Len(p.path) - 1)]

\* self.x, self.y = self.path.pop(0)
PopPath(p) ==
    [p EXCEPT !.x = p.path[1][1], !.y = p.path[1][2], !.path = Tail(p.path)]

\* variant: a quarantined agent contaminates its cell too
droplet_spread_in_quarantine(p, m) ==
    IF is_contagious(p) \/ is_quarantined(p)
    THEN contaminate(m, p.x, p.y, DefaultConcentration) ELSE m

\* variant: every bit of the byte is set
droplet_spread_full_byte(p, m) ==
    IF is_contagious(p) THEN contaminate(m, p.x, p.y, 2 * DefaultConcentration + 1) ELSE m

\* droplet_spread: the miasma after the agent's call
droplet_spread(p, m) ==
    IF is_contagious(p) THEN contaminate(m, p.x, p.y, DefaultConcentration) ELSE m

\* variant: the is_susceptible test left out
droplet_expose_any_status(p, m, r) ==
    IF r < virus_level(m, p.x, p.y) THEN infect(p) ELSE p

\* variant: a draw equal to the level infects too
droplet_expose_at_level(p, m, r) ==
    IF is_susceptible(p) /\ r <= virus_level(m, p.x, p.y) THEN infect(p) ELSE p

\* droplet_expose with r the value of random.randint(0, 255)
droplet_expose(p, m, r) ==
    IF is_susceptible(p) /\ r < virus_level(m, p.x, p.y) THEN infect(p) ELSE p

\* variant: the default rate 0.02 instead of the rate passed in
RecoveryRollDefaultRate(r, rate) == r < 2

\* the recovery roll of convalesce: random.random() < recovery_rate
RecoveryRoll(r, rate) == r < rate

\* random.random() < 0.05
QuarantineChance == 5

\* random_move with rand the value of random.random(): the elif chain falls
\* through to the next direction when can_enter refuses the earlier one
random_move(img, p, rand) ==
    IF rand < 20 /\ Truthy(can_enter(img, p.x + 1, p.y)) THEN [p EXCEPT !.x = p.x + 1]
    ELSE IF rand < 40 /\ Truthy(can_enter(img, p.x - 1, p.y)) THEN [p EXCEPT !.x = p.x - 1]
    ELSE IF rand < 60 /\ Truthy(can_enter(img, p.x, p.y + 1)) THEN [p EXCEPT !.y = p.y + 1]
    ELSE IF rand < 80 /\ Truthy(can_enter(img, p.x, p.y - 1)) THEN [p EXCEPT !.y = p.y - 1]
    ELSE p

Probe(img, x, y) == [x |-> x, y |-> y, ret |-> can_enter(img, x, y)]

\* the can_enter calls random_move makes, with their results
RandomMoveProbes(img, p, rand) ==
    LET a == Probe(img, p.x + 1, p.y)
        b == Probe(img, p.x - 1, p.y)
        c == Probe(img, p.x, p.y + 1)
        d == Probe(img, p.x, p.y - 1)
    IN  IF rand < 20 /\ Truthy(a.ret) THEN {a}
        ELSE IF rand < 40 /\ Truthy(b.ret) THEN (IF rand < 20 THEN {a, b} ELSE {b})
        ELSE IF rand < 60 /\ Truthy(c.ret)
             THEN (IF rand < 20 THEN {a, b, c} ELSE IF rand < 40 THEN {b, c} ELSE {c})
        ELSE IF rand < 80
             THEN (IF rand < 20 THEN {a, b, c, d}
                   ELSE IF rand < 40 THEN {b, c, d}
                   ELSE IF rand < 60 THEN {c, d} ELSE {d})
        ELSE {}

\* the mask new_task samples its destination from; {} stands for the
\* random_move branch
TaskMask(img, rand) ==
    IF rand < 10 THEN target(img)
    ELSE IF rand < 20 THEN start(img)
    ELSE IF rand < 50 THEN valid(img)
    ELSE {}

TaskIsPathfind(rand) == rand < 50

-----------------------------------------------------------------------------
(* SIRModel.__init__ *)

Img == Maps[mapfile]

NoCall == [who |-> 0, target |-> <<0, 0>>]

\* variant: range(1, carriers)
CarrierRangeFromOne(k) == {i + 1 : i \in 1 .. k - 1}

\* range(carriers), as 1-based population indices
CarrierRange(k) == {i + 1 : i \in 0 .. k - 1}

NoRun == [op |-> "none", n |-> 0, x |-> 0, y |-> 0, c |-> 0]

\* an agent after random_place, pathfind(random_idx(target)) and the urgency
\* draw, paired with the target it was routed to
PlacedNodes(i) ==
    UNION {UNION {{<<[SIRNode(s[1], s[2]) EXCEPT !.path = route, !.urgency = u], t>> :
                      route \in pathfind(i, s, t), u \in Urgencies} :
                  t \in random_idx(Maps[i], target(Maps[i]))} :
           s \in random_idx(Maps[i], start(Maps[i]))}

\* the population after the carriers loop, from the placed agents f
BuildPopulation(f, k) ==
    [j \in DOMAIN f |-> IF j \in CarrierRange(k) THEN infect(f[j][1]) ELSE f[j][1]]

\* the constructor returns: no random_idx call of the population build raises
Constructible(i) ==
    /\ ~random_idx_raises(Maps[i], start(Maps[i]))
    /\ ~random_idx_raises(Maps[i], target(Maps[i]))

\* no move call has isolated the agent
NotIsolated == [target |-> <<0, 0>>, cells |-> 0, since |-> 0]

NoReturn == [query |-> "none", value |-> <<>>]

\* the nodes at the moment the population build raises: every node was
\* appended at (0, 0); the first was placed when only the target mask is
\* too small
HalfBuilt(i, n) ==
    IF random_idx_raises(Maps[i], start(Maps[i]))
    THEN {[j \in 1 .. n |-> SIRNode(0, 0)]}
    ELSE {[j \in 1 .. n |-> IF j = 1 THEN SIRNode(s[1], s[2]) ELSE SIRNode(0, 0)] :
             s \in random_idx(Maps[i], start(Maps[i]))}

\* load_map accepts every image; the constructor then either returns the
\* engine or leaves with the ValueError of a random_idx call
Init ==
    /\ mapfile \in MapIds
    /\ recovery_rate \in RecoveryRates
    /\ \E n \in PopulationSizes :
          IF Constructible(mapfile)
          THEN \E f \in [1 .. n -> PlacedNodes(mapfile)] :
                  /\ carriers \in 0 .. n
                  /\ population = BuildPopulation(f, carriers)
                  /\ routed = [who |-> n, target |-> f[n][2]]
                  /\ phase = "idle"
          ELSE /\ carriers \in 0 .. n
               /\ population \in HalfBuilt(mapfile, n)
               /\ routed = NoCall
               /\ phase = "build_raised"
    /\ miasma = [c \in Cells(Img) |-> 0]
    /\ idx = 0
    /\ ticks = 0
    /\ probes = {}
    /\ fieldRun = NoRun
    /\ fieldBase = miasma
    /\ calls = <<>>
    /\ returned = NoReturn
    /\ fresh = {}
    /\ quiet = [c \in Cells(Img) |-> 0]
    /\ isolation = [i \in DOMAIN population |-> NotIsolated]

-----------------------------------------------------------------------------
(* SIRModel.model_step, one action per method call of its two sweeps *)

Static == UNCHANGED <<mapfile, recovery_rate, carriers, fieldRun, fieldBase>>

\* variant: one sweep, each agent spreading, convalescing, moving and being
\* exposed in turn
AfterCallOneSweep(call, i, n) ==
    CASE call = "spread" -> <<"convalesce", i>>
      [] call = "convalesce" -> <<"move", i>>
      [] call = "move" -> <<"expose", i>>
      [] call = "expose" -> IF i < n THEN <<"spread", i + 1>> ELSE <<"ventilate", 0>>
      [] call = "ventilate" -> <<"idle", 0>>

\* the call model_step makes after `call` on agent i of n, "idle" when it
\* returns
AfterCall(call, i, n) ==
    CASE call = "spread" -> <<"convalesce", i>>
      [] call = "convalesce" -> IF i < n THEN <<"spread", i + 1>> ELSE <<"move", 1>>
      [] call = "move" -> <<"expose", i>>
      [] call = "expose" -> IF i < n THEN <<"move", i + 1>> ELSE <<"ventilate", 0>>
      [] call = "ventilate" -> <<"idle", 0>>

\* the call under way returns and model_step goes on to the next
Return ==
    /\ phase' = AfterCall(phase, idx, Len(population))[1]
    /\ idx' = AfterCall(phase, idx, Len(population))[2]
    /\ calls' = Append(calls, <<phase, idx>>)
    /\ UNCHANGED returned

\* an exception leaves model_step; the engine is not stepped again
Raise ==
    /\ phase' = "raised"
    /\ calls' = Append(calls, <<phase, idx>>)
    /\ UNCHANGED <<idx, ticks, miasma, returned, fresh, quiet>>

\* model_step calls made on an engine of n agents
TickLimit(n) == IF n = 1 THEN MaxSoloTicks ELSE MaxTicks

\* model_step is called
ModelStep ==
    /\ phase = "idle"
    /\ ticks < TickLimit(Len(population))
    /\ phase' = "spread"
    /\ idx' = 1
    /\ routed' = NoCall
    /\ probes' = {}
    /\ calls' = <<>>
    /\ returned' = NoReturn
    /\ fresh' = {}
    /\ UNCHANGED <<population, miasma, ticks, quiet, isolation>>
    /\ Static

\* p.droplet_spread()
DropletSpread ==
    /\ phase = "spread"
    /\ miasma' = droplet_spread(population[idx], miasma)
    /\ fresh' = IF is_contagious(population[idx])
                THEN fresh \cup {Here(population[idx])} ELSE fresh
    /\ Return
    /\ routed' = NoCall
    /\ probes' = {}
    /\ UNCHANGED <<population, ticks, quiet, isolation>>
    /\ Static

\* p.convalesce(self.recovery_rate)
Convalesce ==
    /\ phase = "convalesce"
    /\ probes' = {}
    /\ UNCHANGED isolation
    /\ Static
    /\ LET p == population[idx]
           next == /\ Return
                   /\ UNCHANGED <<ticks, miasma, fresh, quiet>>
       IN  IF is_contagious(p) \/ is_quarantined(p)
           THEN \E recovers \in {RecoveryRoll(r, recovery_rate) : r \in RandomDraws} :
                   IF recovers
                   THEN LET q == [p EXCEPT !.status = RECOVERED]
                        IN  IF random_idx_raises(Img, open(Img))
                            THEN /\ population' = [population EXCEPT ![idx] = q]
                                 /\ routed' = NoCall
                                 /\ Raise
                            ELSE \E t \in random_idx(Img, open(Img)) :
                                 \E route \in pathfind(mapfile, Here(q), t) :
                                    /\ population' =
                                          [population EXCEPT ![idx] = [q EXCEPT !.path = route]]
                                    /\ routed' = [who |-> idx, target |-> t]
                                    /\ next
                   ELSE /\ UNCHANGED population
                        /\ routed' = NoCall
                        /\ next
           ELSE /\ UNCHANGED population
                /\ routed' = NoCall
                /\ next

\* variant: the isolating agent is sent to any cell it may stand on
IsolationMaskValid(img) == valid(img)

\* the mask move draws an isolating agent's destination from
IsolationMask(img) == quarantine(img)

\* p.move()
Move ==
    /\ phase = "move"
    /\ Static
    /\ LET p == population[idx]
           done(q, call, pr) ==
               /\ population' = [population EXCEPT ![idx] = q]
               /\ routed' = call
               /\ probes' = pr
               /\ Return
               /\ UNCHANGED <<ticks, miasma, fresh, quiet>>
           raised ==
               /\ UNCHANGED population
               /\ routed' = NoCall
               /\ probes' = {}
               /\ Raise
           reroute(mask, status) ==
               IF random_idx_raises(Img, mask) THEN raised
               ELSE \E t \in random_idx(Img, mask) :
                    \E route \in pathfind(mapfile, Here(p), t) :
                       done([p EXCEPT !.path = route, !.status = status],
                            [who |-> idx, target |-> t], {})
           new_task ==
               \E task \in {<<TaskIsPathfind(rand), TaskMask(Img, rand)>> : rand \in RandomDraws} :
                  IF task[1] THEN reroute(task[2], p.status)
                  ELSE \E step \in {<<random_move(Img, p, r4), RandomMoveProbes(Img, p, r4)>> :
                                       r4 \in RandomDraws} :
                          done(step[1], NoCall, step[2])
           follow ==
               IF Len(p.path) > 0 THEN done(PopPath(p), NoCall, {}) ELSE new_task
       IN  IF is_quarantined(p)
           THEN done(IF Len(p.path) > 0 THEN PopPath(p) ELSE p, NoCall, {})
           ELSE \E acts \in {r <= p.urgency : r \in RandomDraws} :
                   IF acts
                   THEN IF is_contagious(p)
                        THEN \E isolates \in {r2 < QuarantineChance : r2 \in RandomDraws} :
                                IF isolates
                                THEN reroute(IsolationMask(Img), QUARANTINED)
                                ELSE follow
                        ELSE follow
                   ELSE done(p, NoCall, {})
    /\ isolation' =
          IF is_contagious(population[idx]) /\ is_quarantined(population'[idx])
          THEN [isolation EXCEPT ![idx] = [target |-> routed'.target,
                                           cells |-> Len(population'[idx].path),
                                           since |-> ticks]]
          ELSE isolation

\* p.droplet_expose()
DropletExpose ==
    /\ phase = "expose"
    /\ \E q \in {droplet_expose(population[idx], miasma, r) : r \in 0 .. 255} :
          population' = [population EXCEPT ![idx] = q]
    /\ Return
    /\ routed' = NoCall
    /\ probes' = {}
    /\ UNCHANGED <<ticks, miasma, fresh, quiet, isolation>>
    /\ Static

\* self.sir_map.ventilate(), then model_step returns
Ventilate ==
    /\ phase = "ventilate"
    /\ miasma' = ventilate(miasma)
    /\ ticks' = ticks + 1
    /\ quiet' = [c \in Cells(Img) |->
                    IF c \in fresh THEN 0 ELSE Min({quiet[c] + 1, MaxQuiet})]
    /\ Return
    /\ UNCHANGED <<population, routed, probes, fresh, isolation>>
    /\ Static

-----------------------------------------------------------------------------
(* SIRModel queries *)

get_model_size == shape(Img)

Coordinates(nodes) == [k \in 1 .. Len(nodes) |-> <<nodes[k].x, nodes[k].y>>]

list_susceptible == Coordinates(SelectSeq(population, is_susceptible))

\* variant: quarantined agents left out
list_infected_contagious_only == Coordinates(SelectSeq(population, is_contagious))

list_infected ==
    LET Shown(p) == is_contagious(p) \/ is_quarantined(p)
    IN  Coordinates(SelectSeq(population, Shown))

list_recovered ==
    LET Shown(p) == p.status = RECOVERED
    IN  Coordinates(SelectSeq(population, Shown))

\* variant: the loop of a query takes each agent's route
QueriedTakingRoutes(value) ==
    [value |-> value,
     population |-> [i \in DOMAIN population |-> [population[i] EXCEPT !.path = <<>>]],
     miasma |-> miasma]

\* a query's answer and the engine it leaves: the queries read the nodes
\* and the map and assign to neither
Queried(value) == [value |-> value, population |-> population, miasma |-> miasma]

\* a query is called before a model_step call
Answer(query, value) ==
    /\ phase = "idle"
    /\ ticks < TickLimit(Len(population))
    /\ returned' = [query |-> query, value |-> Queried(value).value]
    /\ population' = Queried(value).population
    /\ miasma' = Queried(value).miasma
    /\ UNCHANGED <<phase, idx, ticks, routed, probes, calls, fresh, quiet, isolation>>
    /\ Static

GetModelSize == Answer("get_model_size", get_model_size)

ListSusceptible == Answer("list_susceptible", list_susceptible)

ListInfected == Answer("list_infected", list_infected)

ListRecovered == Answer("list_recovered", list_recovered)

Next ==
    \/ ModelStep
    \/ DropletSpread
    \/ Convalesce
    \/ Move
    \/ DropletExpose
    \/ Ventilate
    \/ GetModelSize
    \/ ListSusceptible
    \/ ListInfected
    \/ ListRecovered

Spec == Init /\ [][Next]_vars

\* the calls of model_step
Step ==
    \/ ModelStep
    \/ DropletSpread
    \/ Convalesce
    \/ Move
    \/ DropletExpose
    \/ Ventilate

\* an engine constructed with recovery_rate = 0 on a map whose quarantine
\* mask random_idx can draw from, so that a move can isolate an agent
QuarantineInit ==
    /\ Init
    /\ recovery_rate = 0
    /\ ~random_idx_raises(Img, quarantine(Img))

\* that engine with model_step called again and again: a call that can be
\* made is made, and a call under way goes on
QuarantineSpec == QuarantineInit /\ [][Next]_vars /\ WF_vars(Step)

-----------------------------------------------------------------------------
(* The SIRMap on its own: contaminate and ventilate called directly on a   *)
(* map whose cells hold arbitrary bytes.                                   *)

\* a level that differs from cell to cell
Background(img, c) == (85 * CellIndex(img, c)) % 256

FieldInit ==
    /\ mapfile \in {i \in MapIds : Maps[i] = MapStrip}
    /\ \E c0 \in Cells(Img) : \E level \in 0 .. 255 :
          miasma = [c \in Cells(Img) |-> IF c = c0 THEN level ELSE Background(Img, c)]
    /\ recovery_rate = 0
    /\ carriers = 0
    /\ population = <<>>
    /\ phase = "idle"
    /\ idx = 0
    /\ ticks = 0
    /\ routed = NoCall
    /\ probes = {}
    /\ fieldRun = NoRun
    /\ fieldBase = miasma
    /\ calls = <<>>
    /\ returned = NoReturn
    /\ fresh = {}
    /\ quiet = [c \in Cells(Img) |-> 0]
    /\ isolation = [i \in DOMAIN population |-> NotIsolated]

FieldStatic ==
    UNCHANGED <<mapfile, recovery_rate, carriers, population, phase, idx, ticks,
                routed, probes, calls, returned, fresh, quiet, isolation>>

\* sir_map.contaminate(x, y, concentration)
FieldContaminate ==
    /\ fieldRun.op = "none"
    /\ \E cell \in Cells(Img) : \E concentration \in 0 .. 255 :
          /\ miasma' = contaminate(miasma, cell[1], cell[2], concentration)
          /\ fieldRun' = [op |-> "contaminate", n |-> 1,
                          x |-> cell[1], y |-> cell[2], c |-> concentration]
    /\ fieldBase' = miasma
    /\ FieldStatic

\* the same contaminate call once more
FieldContaminateAgain ==
    /\ fieldRun.op = "contaminate"
    /\ fieldRun.n < MaxRepeats
    /\ miasma' = contaminate(miasma, fieldRun.x, fieldRun.y, fieldRun.c)
    /\ fieldRun' = [fieldRun EXCEPT !.n = @ + 1]
    /\ UNCHANGED fieldBase
    /\ FieldStatic

\* sir_map.ventilate()
FieldVentilate ==
    /\ fieldRun.op \in {"none", "ventilate"}
    /\ fieldRun.n < MaxVentilations
    /\ miasma' = ventilate(miasma)
    /\ fieldRun' = [NoRun EXCEPT !.op = "ventilate", !.n = fieldRun.n + 1]
    /\ UNCHANGED fieldBase
    /\ FieldStatic

FieldNext ==
    \/ FieldContaminate
    \/ FieldContaminateAgain
    \/ FieldVentilate

FieldSpec == FieldInit /\ [][FieldNext]_vars

-----------------------------------------------------------------------------
(* Properties *)

Nodes == DOMAIN population

AtTickBoundary == phase = "idle" /\ ticks > 0

InBounds(img, x, y) ==
    x \in 0 .. shape(img)[1] - 1 /\ y \in 0 .. shape(img)[2] - 1

Pixel(img, c) == img[c[1] + 1][c[2] + 1]

AllowedTransitions ==
    {<<SUSCEPTIBLE, INFECTED>>, <<INFECTED, QUARANTINED>>,
     <<INFECTED, RECOVERED>>, <<QUARANTINED, RECOVERED>>}

\* C1: in every step each agent's status stays the same or changes along
\* SUSCEPTIBLE->INFECTED, INFECTED->QUARANTINED, INFECTED->RECOVERED or
\* QUARANTINED->RECOVERED; in particular RECOVERED is never left.
C1_StatusTransitions ==
    [][\A i \in Nodes :
          \/ population'[i].status = population[i].status
          \/ <<population[i].status, population'[i].status>> \in AllowedTransitions]_vars

\* an agent that started SUSCEPTIBLE has been infected and has recovered,
\* while a carrier is quarantined
C1_Witness ==
    /\ \E i \in Nodes : i > carriers /\ population[i].status = RECOVERED
    /\ \E j \in Nodes : j <= carriers /\ population[j].status = QUARANTINED

\* C2: after every model_step every agent that is not QUARANTINED stands on
\* a cell can_enter accepts.
C2_LegalPositions ==
    AtTickBoundary =>
        \A i \in Nodes :
            ~is_quarantined(population[i]) =>
                Truthy(can_enter(Img, population[i].x, population[i].y))

Listed(Shown(_)) == {i \in Nodes : Shown(population[i])}

\* C3: the three lists together hold one entry per agent: every agent is
\* taken by exactly one list, list_infected taking the INFECTED and the
\* QUARANTINED agents, and the lengths sum to the population size, which no
\* step changes.
C3_ListsPartition ==
    /\ [](/\ Len(list_susceptible) + Len(list_infected) + Len(list_recovered)
                = Len(population)
          /\ Len(list_susceptible) = Cardinality(Listed(is_susceptible))
          /\ Len(list_infected) =
                Cardinality(Listed(is_contagious) \cup Listed(is_quarantined))
          /\ Len(list_recovered) =
                Cardinality({i \in Nodes : population[i].status = RECOVERED})
          /\ \A i \in Nodes : population[i].status \in SIRStatus)
    /\ [][Len(population') = Len(population)]_vars

\* of two agents one is QUARANTINED and the other RECOVERED
C3_Witness ==
    /\ Len(population) = 2
    /\ Len(list_infected) = 1
    /\ Len(list_recovered) = 1
    /\ \E i \in Nodes : is_quarantined(population[i])

JustConstructed == phase = "idle" /\ ticks = 0

\* C4: right after construction exactly `carriers` distinct agents are
\* INFECTED and every other agent is SUSCEPTIBLE.
C4_InitialCarriers ==
    JustConstructed =>
        /\ Cardinality({i \in Nodes : population[i].status = INFECTED}) = carriers
        /\ \A i \in Nodes : population[i].status \in {INFECTED, SUSCEPTIBLE}

C4_Witness ==
    /\ JustConstructed
    /\ Len(population) = 2
    /\ carriers = 1
    /\ population[2].status = SUSCEPTIBLE

RECURSIVE Pow4(_)
Pow4(n) == IF n = 0 THEN 1 ELSE 4 * Pow4(n - 1)

\* C5: after n consecutive ventilate calls every cell holds
\* floor(L0 / 4^n), and 0 once n >= 4.
C5_VentilateDecay ==
    fieldRun.op = "ventilate" =>
        \A c \in DOMAIN miasma :
            /\ miasma[c] = fieldBase[c] \div Pow4(fieldRun.n)
            /\ fieldRun.n >= 4 => miasma[c] = 0

C5_Witness ==
    /\ fieldRun.op = "ventilate"
    /\ fieldRun.n = 4
    /\ \E c \in DOMAIN miasma : fieldBase[c] = 255 /\ miasma[c] = 0

RECURSIVE Pow2(_)
Pow2(n) == IF n = 0 THEN 1 ELSE 2 * Pow2(n - 1)

Bit(v, k) == (v \div Pow2(k)) % 2

\* C6: after one contaminate(x, y, c) call, and after the same call made
\* again, the cell holds (prior level OR c), at most 0xFF, and every other
\* cell holds what it held before.
C6_ContaminateIdempotent ==
    fieldRun.op = "contaminate" =>
        LET cell == <<fieldRun.x, fieldRun.y>>
        IN  /\ \A k \in 0 .. 7 :
                  Bit(miasma[cell], k) = 1
                      <=> (Bit(fieldBase[cell], k) = 1 \/ Bit(fieldRun.c, k) = 1)
            /\ miasma[cell] \in 0 .. 255
            /\ \A other \in DOMAIN miasma \ {cell} : miasma[other] = fieldBase[other]

\* the second of two equal calls, on a cell the first call changed
C6_Witness ==
    /\ fieldRun.op = "contaminate"
    /\ fieldRun.n = 2
    /\ LET cell == <<fieldRun.x, fieldRun.y>>
       IN  /\ miasma[cell] # fieldBase[cell]
           /\ miasma[cell] # fieldRun.c
           /\ fieldBase[cell] + fieldRun.c > 255

CanEnterAsClaimed(img, x, y, ret) ==
    IF InBounds(img, x, y)
    THEN /\ ret \in {"0", "1"}
         /\ Truthy(ret) <=> Pixel(img, <<x, y>>) \notin {WALL, QUARANTINE}
    ELSE ret = "False"

\* per map: can_enter is as claimed on the grid and Margin cells around it
CanEnterTable ==
    LET OfMap(i) ==
            \A x \in -Margin .. shape(Maps[i])[1] - 1 + Margin :
            \A y \in -Margin .. shape(Maps[i])[2] - 1 + Margin :
               CanEnterAsClaimed(Maps[i], x, y, can_enter(Maps[i], x, y))
    IN  Tabulate([n \in 1 .. Len(Maps) |-> OfMap(n)], 1, Len(Maps))

\* C7: can_enter returns false, without raising, for every pair outside the
\* grid, and for a pair inside it is true exactly when the cell is neither
\* a wall nor a quarantine cell; so for every call random_move made.
C7_CanEnter ==
    /\ CanEnterTable[mapfile]
    /\ \A pr \in probes : CanEnterAsClaimed(Img, pr.x, pr.y, pr.ret)

\* a random_move that asked about a cell outside the grid and then about
\* one inside
C7_Witness ==
    /\ \E pr \in probes : ~InBounds(Img, pr.x, pr.y) /\ pr.ret = "False"
    /\ \E pr \in probes : InBounds(Img, pr.x, pr.y) /\ pr.ret = "1"

Routed == routed.who # 0

RoutedNode == population[routed.who]

Last(seq) == seq[Len(seq)]

Connected(route) == \A k \in 1 .. Len(route) - 1 : Adjacent(route[k], route[k + 1])

\* C8 as stated: the stored route leaves out the agent's cell and ends with
\* the target, and is empty when the target is the agent's cell.
C8_RouteExcludesStart ==
    Routed =>
        LET route == RoutedNode.path
            here == Here(RoutedNode)
        IN  /\ \A k \in DOMAIN route : route[k] # here
            /\ routed.target = here => route = <<>>
            /\ routed.target # here =>
                  /\ route # <<>>
                  /\ Last(route) = routed.target
                  /\ Adjacent(here, route[1])

\* C8 amended: the stored route starts with the agent's own cell, proceeds
\* by neighbouring cells and ends with the target; when the target is the
\* agent's cell the route is that one cell.  The first cell move pops is
\* therefore the agent's current cell.
C8_RouteIncludesStart ==
    Routed =>
        LET route == RoutedNode.path
            here == Here(RoutedNode)
        IN  /\ route # <<>>
            /\ route[1] = here
            /\ Last(route) = routed.target
            /\ Connected(route)
            /\ \A k \in 2 .. Len(route) : route[k] # here
            /\ routed.target = here => route = <<here>>
            /\ PopPath(RoutedNode).x = RoutedNode.x
            /\ PopPath(RoutedNode).y = RoutedNode.y

\* a new task whose target is the cell the agent stands on
C8_Witness ==
    /\ Routed
    /\ ticks > 0
    /\ routed.target = Here(RoutedNode)
    /\ RoutedNode.path = <<Here(RoutedNode)>>

RECURSIVE Flood(_, _)
Flood(img, S) ==
    LET wider == S \cup {v \in Cells(img) :
                            /\ Pixel(img, v) # WALL
                            /\ \E u \in S : Adjacent(u, v)}
    IN  IF wider = S THEN S ELSE Flood(img, wider)

\* no wall-free route leads from s to t
WallSeparated(img, s, t) == t \notin Flood(img, {s})

RECURSIVE RouteCost(_, _)
RouteCost(img, route) ==
    IF Len(route) < 2 THEN 0
    ELSE EdgeCost(img, route[1], route[2]) + RouteCost(img, Tail(route))

WallEdges(img, route) ==
    {k \in 1 .. Len(route) - 1 :
        Pixel(img, route[k]) = WALL \/ Pixel(img, route[k + 1]) = WALL}

RouteAsClaimed(img, route, t) ==
    /\ route # <<>>
    /\ Last(route) = t
    /\ WallEdges(img, route) # {}
    /\ RouteCost(img, route) =
          shape(img)[1] * shape(img)[2] * Cardinality(WallEdges(img, route))
          + (Len(route) - 1 - Cardinality(WallEdges(img, route)))

\* per map: every pair of cells that walls separate has a route as claimed
SeparatedRoutesTable ==
    LET OfMap(i) ==
            \A s \in Cells(Maps[i]) : \A t \in Cells(Maps[i]) :
               WallSeparated(Maps[i], s, t) =>
                   /\ pathfind(i, s, t) # {}
                   /\ \A route \in pathfind(i, s, t) : RouteAsClaimed(Maps[i], route, t)
    IN  Tabulate([n \in 1 .. Len(Maps) |-> OfMap(n)], 1, Len(Maps))

\* C9: where walls separate the agent's cell from the target, pathfind
\* still yields a route to the target, and the cost of the route is
\* width*height for each edge touching a wall cell plus 1 for each other
\* edge.
C9_RouteThroughWalls ==
    /\ SeparatedRoutesTable[mapfile]
    /\ Routed /\ WallSeparated(Img, Here(RoutedNode), routed.target) =>
          RouteAsClaimed(Img, RoutedNode.path, routed.target)

\* a quarantine reroute from the start zone across the wall
C9_Witness ==
    /\ Routed
    /\ ticks > 0
    /\ Here(RoutedNode) \in start(Img)
    /\ WallSeparated(Img, Here(RoutedNode), routed.target)
    /\ Cardinality(WallEdges(Img, RoutedNode.path)) = 2

NoWallsNoQuarantine == walls(Img) = {} /\ quarantine(Img) = {}

\* C10: with recovery_rate 0 on a map without wall and quarantine cells,
\* after one model_step every initial carrier is still INFECTED and at most
\* population - carriers agents are SUSCEPTIBLE.
C10_CarriersStayInfected ==
    (recovery_rate = 0 /\ NoWallsNoQuarantine /\ phase = "idle" /\ ticks = 1) =>
        /\ \A i \in Nodes : i <= carriers => population[i].status = INFECTED
        /\ Cardinality(Listed(is_susceptible)) <= Len(population) - carriers

\* one tick in which the carrier infected the other agent
C10_Witness ==
    /\ recovery_rate = 0
    /\ NoWallsNoQuarantine
    /\ phase = "idle"
    /\ ticks = 1
    /\ carriers = 1
    /\ Len(population) = 2
    /\ population[2].status = INFECTED

-----------------------------------------------------------------------------

InModelStep == phase \in {"spread", "convalesce", "move", "expose", "ventilate"}

\* C11: a call of get_model_size, list_susceptible, list_infected or
\* list_recovered leaves every agent's status, position and path, the
\* population order and every cell of the field as they were; agents and
\* field change only while a model_step call is under way.
C11_QueriesReadOnly ==
    [][/\ (phase = "idle" /\ phase' = "idle")
             => (population' = population /\ miasma' = miasma)
       /\ (population' # population \/ miasma' # miasma) => InModelStep]_vars

C11_Witness ==
    /\ ticks > 0
    /\ returned.query = "list_infected"
    /\ returned.value # <<>>
    /\ \E i \in Nodes : population[i].path # <<>>

-----------------------------------------------------------------------------

EveryClassPresent(img) ==
    /\ open(img) # {}
    /\ walls(img) # {}
    /\ start(img) # {}
    /\ target(img) # {}
    /\ quarantine(img) # {}

\* C12: on a map with at least one cell of every terrain class, zones of a
\* single cell included, no model_step call is left by an exception part-way:
\* a call that has started makes all its calls through ventilate.
C12_StepsRunToCompletion == EveryClassPresent(Img) => phase # "raised"

-----------------------------------------------------------------------------

RequiredMaskEmpty(img) == start(img) = {} \/ target(img) = {} \/ quarantine(img) = {}

\* C13: a map with an empty start, target or quarantine mask is rejected
\* when it is loaded: no agent is ever created for it, and no failure
\* surfaces in the population build or in a model_step.
C13_RejectedAtLoad ==
    RequiredMaskEmpty(Img)
        => population = <<>> /\ phase \notin {"idle", "build_raised", "raised"}

-----------------------------------------------------------------------------

\* call1 then call2 for agent 1, then for agent 2, ...
SweepCalls(call1, call2, n) ==
    [k \in 1 .. 2 * n |-> <<IF k % 2 = 1 THEN call1 ELSE call2, (k + 1) \div 2>>]

StepCalls(n) ==
    SweepCalls("spread", "convalesce", n) \o SweepCalls("move", "expose", n)
        \o << <<"ventilate", 0>> >>

IsPrefix(s, t) == Len(s) <= Len(t) /\ \A k \in 1 .. Len(s) : s[k] = t[k]

CallsInOrder ==
    /\ IsPrefix(calls, StepCalls(Len(population)))
    /\ AtTickBoundary => calls = StepCalls(Len(population))

\* C14: the calls of a model_step are, in this order, droplet_spread then
\* convalesce for each agent in population order, move then droplet_expose
\* for each agent in population order, and ventilate once; so every
\* droplet_spread comes before any droplet_expose and nothing is
\* contaminated once the second sweep has begun.
C14_PhaseOrder ==
    /\ []CallsInOrder
    /\ [][(phase = "move" \/ phase = "expose")
              => (miasma' = miasma /\ fresh' = fresh)]_vars

C14_Witness ==
    /\ phase = "idle"
    /\ ticks = 1
    /\ Len(population) = 2
    /\ calls = StepCalls(2)
    /\ \E i \in Nodes : i > carriers /\ population[i].status = INFECTED

-----------------------------------------------------------------------------

ExposedAsClaimed(p, level, r) ==
    IF p.status = SUSCEPTIBLE /\ r < level THEN [p EXCEPT !.status = INFECTED] ELSE p

\* of the 256 draws, those that change an agent of the given status on a
\* cell of the given level are the draws below the level when the agent is
\* SUSCEPTIBLE and none otherwise, and they make it INFECTED
DrawsAsClaimed(status, level) ==
    LET p == [SIRNode(0, 0) EXCEPT !.status = status]
        m == [c \in {<<0, 0>>} |-> level]
        changing == {r \in 0 .. 255 : droplet_expose(p, m, r) # p}
    IN  /\ changing = (IF status = SUSCEPTIBLE THEN {r \in 0 .. 255 : r < level} ELSE {})
        /\ Cardinality(changing) = (IF status = SUSCEPTIBLE THEN level ELSE 0)
        /\ \A r \in changing : droplet_expose(p, m, r) = [p EXCEPT !.status = INFECTED]

\* every status, every byte a cell can hold, every draw
ExposeTable == \A status \in SIRStatus : \A level \in 0 .. 255 : DrawsAsClaimed(status, level)

\* the draws next to the level of the agent's cell, and the two ends
DrawsAround(level) == {0, level - 1, level, level + 1, 255} \cap 0 .. 255

\* the agent standing for its droplet_expose call, on the cell its move
\* left it on
ExposeDraws ==
    /\ ExposeTable
    /\ phase = "expose" =>
          LET p == population[idx]
              level == miasma[<<p.x, p.y>>]
          IN  \A r \in DrawsAround(level) :
                 droplet_expose(p, miasma, r) = ExposedAsClaimed(p, level, r)

\* C15: droplet_expose makes a SUSCEPTIBLE agent INFECTED exactly when the
\* draw r in 0..255 is below the level of the cell the agent stands on after
\* its move: never on a cell of level 0, for exactly `level` of the 256
\* draws, and an agent of any other status is left as it is.
C15_DropletExpose ==
    /\ []ExposeDraws
    /\ [][phase = "expose" =>
            /\ \E r \in 0 .. 255 :
                  population'[idx] =
                      ExposedAsClaimed(population[idx],
                                       miasma[<<population[idx].x, population[idx].y>>], r)
            /\ \A i \in Nodes \ {idx} : population'[i] = population[i]]_vars

C15_Witness ==
    /\ phase = "ventilate"
    /\ ticks = 0
    /\ \E i \in Nodes :
          /\ i > carriers
          /\ population[i].status = INFECTED
          /\ miasma[<<population[i].x, population[i].y>>] = 127

-----------------------------------------------------------------------------

\* a OR b, bit by bit
BitwiseOr(a, b) ==
    LET term(k) == IF Bit(a, k) = 1 \/ Bit(b, k) = 1 THEN Pow2(k) ELSE 0
    IN  term(0) + term(1) + term(2) + term(3) + term(4) + term(5) + term(6) + term(7)

\* C16: a droplet_spread call changes a cell only if the calling agent is
\* INFECTED and stands on it, and then to (old level OR 0x7F); agents of
\* the other statuses contaminate nothing, and convalesce, move and
\* droplet_expose leave the field as it is.
C16_OnlySpreadContaminates ==
    [][/\ phase = "spread" =>
             \A c \in Cells(Img) :
                miasma'[c] =
                    IF population[idx].status = INFECTED
                          /\ c = <<population[idx].x, population[idx].y>>
                    THEN BitwiseOr(miasma[c], 127)
                    ELSE miasma[c]
       /\ phase \in {"convalesce", "move", "expose"} => miasma' = miasma]_vars

C16_Witness ==
    /\ phase = "convalesce"
    /\ ticks > 0
    /\ \E i \in Nodes : population[i].status = QUARANTINED
    /\ population[idx].status = INFECTED
    /\ miasma[<<population[idx].x, population[idx].y>>] = 127
    /\ \E c \in Cells(Img) : miasma[c] \in {1, 7, 31}

-----------------------------------------------------------------------------

\* C17: the call in which an agent goes from INFECTED to QUARANTINED is its
\* move; that call leaves the agent where it is and replaces its path by a
\* new route from its cell that ends on a quarantine cell.
C17_QuarantineReroute ==
    [][\A i \in Nodes :
          (population[i].status = INFECTED /\ population'[i].status = QUARANTINED) =>
             /\ phase = "move"
             /\ idx = i
             /\ population'[i].x = population[i].x
             /\ population'[i].y = population[i].y
             /\ routed'.who = i
             /\ population'[i].path # <<>>
             /\ population'[i].path[1] = <<population[i].x, population[i].y>>
             /\ Connected(population'[i].path)
             /\ Last(population'[i].path) = routed'.target
             /\ Pixel(Img, Last(population'[i].path)) = QUARANTINE]_vars

C17_Witness ==
    /\ phase = "expose"
    /\ ticks > 0
    /\ routed.who = idx
    /\ population[idx].status = QUARANTINED
    /\ Len(population[idx].path) > 1
    /\ Pixel(Img, Last(population[idx].path)) = QUARANTINE

-----------------------------------------------------------------------------

\* C18: every cell of the start mask is a cell random_place may put an
\* agent on, and every cell of the target mask is a cell the first
\* destination may be.
C18_EveryCellSampled ==
    JustConstructed =>
        /\ start(Img) \subseteq random_idx(Img, start(Img))
        /\ target(Img) \subseteq random_idx(Img, target(Img))

-----------------------------------------------------------------------------

\* C19: no cell's level is ever above 0x7F; between model_step calls every
\* level is 0, 1, 7 or 31; and a cell on which contaminate was not called
\* during 4 model_step calls in a row holds 0.
C19_LevelsBounded ==
    \A c \in Cells(Img) :
       /\ miasma[c] <= 127
       /\ phase = "idle" => miasma[c] \in {0, 1, 7, 31}
       /\ (phase = "idle" /\ quiet[c] >= 4) => miasma[c] = 0

C19_Witness ==
    /\ phase = "idle"
    /\ ticks = 5
    /\ \E c \in Cells(Img) : quiet[c] = 4 /\ miasma[c] = 0
    /\ \E c \in Cells(Img) : miasma[c] = 31
    /\ \E c \in Cells(Img) : miasma[c] = 7

-----------------------------------------------------------------------------

InsideGrid == \A i \in Nodes : InBounds(Img, population[i].x, population[i].y)

\* C20: a call changes an agent's position only in that agent's move, then
\* to a cell one step away along one axis, and every position is a cell of
\* the grid, whatever the agent does (route, new task, random step) and
\* whichever call replaced its path.
C20_StepsToNeighbours ==
    /\ []InsideGrid
    /\ [][\A i \in Nodes :
             \/ /\ population'[i].x = population[i].x
                /\ population'[i].y = population[i].y
             \/ /\ phase = "move"
                /\ idx = i
                /\ Abs(population'[i].x - population[i].x)
                      + Abs(population'[i].y - population[i].y) = 1]_vars

C20_Witness ==
    /\ phase = "expose"
    /\ ticks > 0
    /\ <<population[idx].x, population[idx].y>> \notin start(Img)
    /\ population[idx].status = RECOVERED
    /\ probes # {}

-----------------------------------------------------------------------------

\* the agent's move of the model_step under way has been made
MoveMade(i) == phase # "idle" /\ \E k \in 1 .. Len(calls) : calls[k] = <<"move", i>>

\* model_step calls in which the agent's move has been made
MovesMade(i) == ticks + (IF MoveMade(i) THEN 1 ELSE 0)

\* the number of moves made once the agent has popped its whole route: the
\* isolating move, then one move for each cell of the route
MovesDue(i) == isolation[i].since + 1 + isolation[i].cells

Quarantined(i) ==
    i \in Nodes /\ recovery_rate = 0 /\ population[i].status = QUARANTINED

Arrived(i) ==
    /\ Quarantined(i)
    /\ <<population[i].x, population[i].y>> = isolation[i].target
    /\ population[i].path = <<>>

\* a quarantined agent pops one cell of its route in every model_step: the
\* route still to go is what the moves made so far have left of it, it ends
\* on the quarantine cell drawn, and the agent stands on that cell once the
\* route is empty and, on a route of two cells or more, not before
OnIsolationRoute ==
    \A i \in Nodes :
       Quarantined(i) =>
          LET p == population[i]
              togo == IF MovesDue(i) > MovesMade(i) THEN MovesDue(i) - MovesMade(i) ELSE 0
          IN  /\ isolation[i].cells >= 1
              /\ Pixel(Img, isolation[i].target) = QUARANTINE
              /\ Len(p.path) = togo
              /\ p.path # <<>> => Last(p.path) = isolation[i].target
              /\ p.path = <<>> => <<p.x, p.y>> = isolation[i].target
              /\ (p.path # <<>> /\ isolation[i].cells >= 2)
                    => <<p.x, p.y>> # isolation[i].target

\* a quarantined agent stays quarantined and is given no new route, and one
\* whose route is empty is left as it is
StaysIsolated ==
    \A i \in Nodes :
       Quarantined(i) =>
          /\ population'[i].status = QUARANTINED
          /\ routed'.who # i
          /\ population[i].path = <<>> => population'[i] = population[i]

\* C21: with recovery_rate = 0 and model_step called again and again, an
\* agent that became QUARANTINED comes to stand on the quarantine cell it
\* was routed to, after exactly as many model_step calls as its route had
\* cells; from then on it does not move, gets no new route, keeps an empty
\* path and stays QUARANTINED.
C21_QuarantinedArrives ==
    /\ []OnIsolationRoute
    /\ [][StaysIsolated]_vars
    /\ \A i \in 1 .. 2 :
          (Quarantined(i) /\ MovesDue(i) <= TickLimit(Len(population))) ~> Arrived(i)

\* an agent that arrived on its quarantine cell, one model_step later
C21_Witness ==
    /\ phase = "idle"
    /\ \E i \in Nodes :
          /\ Arrived(i)
          /\ isolation[i].cells >= 2
          /\ ticks > MovesDue(i)

====
